---- MODULE Spec2Model ----
(***************************************************************************)
(* Model of chia_log/handlers/harvester_activity_handler.py:               *)
(* HarvesterActivityHandler.handle and the four condition checkers         *)
(* TimeSinceLastFarmEvent, NonDecreasingPlots, QuickPlotSearchTime and     *)
(* FoundProofs.                                                            *)
(*                                                                         *)
(* A timestamp (datetime) is a pair <<seconds, microseconds>>; None is the *)
(* empty tuple.  search_time_seconds (a float) is counted in hundredths of *)
(* a second.  An Optional[Event] is a sequence of zero or one events.  An  *)
(* f-string message is the record of its format text and its arguments.    *)
(***************************************************************************)
EXTENDS Integers, Sequences, FiniteSets, TLC

VARIABLES
    subject,            \* the object the driver constructed and calls
    last_timestamp,     \* TimeSinceLastFarmEvent._last_timestamp
    max_farmed_plots,   \* NonDecreasingPlots._max_farmed_plots
    activity_messages,  \* what the parser returns for the current handle call
    handled,            \* TRUE once handle has returned for activity_messages
    events,             \* the list handle returned
    calls,              \* the check calls made: by the last handle call, or
                        \* on the checker under test since its construction
    before,             \* the checkers' state, and last_obj, when the current
                        \* handle call began
    last_obj,           \* <<m>>, m the last message run through the handler's
                        \* checkers since its construction, or None
    lifetime,           \* when the run records it: the messages the handler was
                        \* given and the events it returned since its construction
    threads             \* the handle calls in progress on one handler when the
                        \* driver calls it from two threads

vars == <<subject, last_timestamp, max_farmed_plots, activity_messages,
          handled, events, calls, before, last_obj, lifetime, threads>>

----------------------------------------------------------------------------
(* Bounds *)

MaxBatch == 2
MaxCalls == 4
MaxFed == 3
MaxBatches == 3
MaxThreadBatch == 1

----------------------------------------------------------------------------
(* Values *)

None == <<>>

Handler == "HarvesterActivityHandler"

\* Variant: the first two checkers constructed in the other order.
cond_checkers_swapped ==
    <<"NonDecreasingPlots", "TimeSinceLastFarmEvent", "QuickPlotSearchTime", "FoundProofs">>

cond_checkers ==
    <<"TimeSinceLastFarmEvent", "NonDecreasingPlots", "QuickPlotSearchTime", "FoundProofs">>

Event(type, priority, service, message) ==
    [type |-> type, priority |-> priority, service |-> service, message |-> message]

Text(fmt, args) == [fmt |-> fmt, args |-> args]

HarvesterActivityMessage(timestamp, plots, search, proofs) ==
    [timestamp |-> timestamp, total_plots_count |-> plots,
     search_time_seconds |-> search, found_proofs_count |-> proofs]

\* The messages the parser yields to handle.
Times == {<<0, 0>>, <<40, 0>>, <<86461, 0>>}
Plots == {90, 100}
SearchTimes == {500, 2600}
Proofs == {0, 1}
Messages ==
    {HarvesterActivityMessage(t, p, s, f) :
        t \in Times, p \in Plots, s \in SearchTimes, f \in Proofs}

\* The messages of the runs that record the handler's lifetime.
SplitMessages ==
    {m \in Messages : m.search_time_seconds = 500 /\ m.found_proofs_count = 0}

\* The messages of the runs with two threads.
ThreadMessages ==
    {m \in Messages : m.search_time_seconds = 500 /\ m.found_proofs_count = 0
                      /\ m.timestamp # <<40, 0>>}

\* The messages a checker under test is called with.
ChkTimes == {<<0, 0>>, <<30, 0>>, <<60, 0>>, <<60, 900000>>, <<61, 0>>, <<66, 0>>,
             <<86410, 0>>, <<86461, 500000>>}
ChkPlots == {0, 10, 12, 15}
ChkSearchTimes == {500, 2500, 2501}
ChkProofs == {0, 1, 2}
Objs ==
    {HarvesterActivityMessage(t, p, s, f) :
        t \in ChkTimes, p \in ChkPlots, s \in ChkSearchTimes, f \in ChkProofs}

----------------------------------------------------------------------------
(* datetime - datetime: a timedelta normalised to days, 0 <= seconds < 86400 *)
(* and 0 <= microseconds < 1000000                                          *)

\* Variant: the seconds rounded to the nearest second instead of truncated.
TimeDelta_rounded(a, b) ==
    LET us == a[2] - b[2]
        s  == IF us < 0 THEN a[1] - b[1] - 1 ELSE a[1] - b[1]
        m  == IF us < 0 THEN us + 1000000 ELSE us
        r  == IF m >= 500000 THEN s + 1 ELSE s
    IN  [days         |-> r \div 86400,
         seconds      |-> r % 86400,
         microseconds |-> 0]

TimeDelta(a, b) ==
    LET us == a[2] - b[2]
        s  == IF us < 0 THEN a[1] - b[1] - 1 ELSE a[1] - b[1]
    IN  [days         |-> s \div 86400,
         seconds      |-> s % 86400,
         microseconds |-> IF us < 0 THEN us + 1000000 ELSE us]

----------------------------------------------------------------------------
(* TimeSinceLastFarmEvent *)

TimeSinceLastFarmEvent_info_threshold == 30

\* Variant: the event raised from the info threshold on.
TimeSinceLastFarmEvent_warning_threshold_info == TimeSinceLastFarmEvent_info_threshold

TimeSinceLastFarmEvent_warning_threshold == 60

\* Variant: last_timestamp left as it was when the event is raised.
TimeSinceLastFarmEvent_check_stale(st, obj) ==
    IF st.last_timestamp = None
    THEN [st |-> [st EXCEPT !.last_timestamp = obj.timestamp], event |-> None]
    ELSE LET seconds_since_last == TimeDelta(obj.timestamp, st.last_timestamp).seconds
             message ==
                 Text("Experiencing networking issues? Harvester did not participate in any challenge for {seconds_since_last} seconds. It's now working again.",
                      <<seconds_since_last>>)
         IN  IF seconds_since_last > 60
             THEN [st |-> st, event |-> <<Event("USER", "NORMAL", "HARVESTER", message)>>]
             ELSE [st |-> [st EXCEPT !.last_timestamp = obj.timestamp], event |-> None]

TimeSinceLastFarmEvent_check(st, obj) ==
    IF st.last_timestamp = None
    THEN [st |-> [st EXCEPT !.last_timestamp = obj.timestamp], event |-> None]
    ELSE LET seconds_since_last == TimeDelta(obj.timestamp, st.last_timestamp).seconds
             message ==
                 Text("Experiencing networking issues? Harvester did not participate in any challenge for {seconds_since_last} seconds. It's now working again.",
                      <<seconds_since_last>>)
             event ==
                 IF seconds_since_last > TimeSinceLastFarmEvent_warning_threshold
                 THEN <<Event("USER", "NORMAL", "HARVESTER", message)>>
                 ELSE None
         IN  [st |-> [st EXCEPT !.last_timestamp = obj.timestamp], event |-> event]

----------------------------------------------------------------------------
(* NonDecreasingPlots *)

IncreasedEvent(obj) ==
    Event("USER", "LOW", "HARVESTER",
          Text("The total plot count increased to {obj.total_plots_count}.",
               <<obj.total_plots_count>>))

DecreasedEvent(stored, obj) ==
    Event("USER", "HIGH", "HARVESTER",
          Text("Disconnected HDD? The total plot count decreased from {self._max_farmed_plots} to {obj.total_plots_count}.",
               <<stored, obj.total_plots_count>>))

\* Variant: without the final assignment, the stored value is a running maximum.
NonDecreasingPlots_check_keepmax(st, obj) ==
    LET increased == obj.total_plots_count > st.max_farmed_plots
        max1 == IF increased THEN obj.total_plots_count ELSE st.max_farmed_plots
        event1 == IF increased THEN <<IncreasedEvent(obj)>> ELSE None
        event2 == IF obj.total_plots_count < max1
                  THEN <<DecreasedEvent(max1, obj)>>
                  ELSE event1
    IN  [st |-> [st EXCEPT !.max_farmed_plots = max1], event |-> event2]

\* Variant: the final assignment made before the second comparison.
NonDecreasingPlots_check_early(st, obj) ==
    LET increased == obj.total_plots_count > st.max_farmed_plots
        max1 == obj.total_plots_count
        event1 == IF increased THEN <<IncreasedEvent(obj)>> ELSE None
        event2 == IF obj.total_plots_count < max1
                  THEN <<DecreasedEvent(max1, obj)>>
                  ELSE event1
    IN  [st |-> [st EXCEPT !.max_farmed_plots = obj.total_plots_count], event |-> event2]

NonDecreasingPlots_check(st, obj) ==
    LET increased == obj.total_plots_count > st.max_farmed_plots
        \* _max_farmed_plots after the first if
        max1 == IF increased THEN obj.total_plots_count ELSE st.max_farmed_plots
        event1 == IF increased THEN <<IncreasedEvent(obj)>> ELSE None
        \* the second if reads _max_farmed_plots as the first if left it
        event2 == IF obj.total_plots_count < max1
                  THEN <<DecreasedEvent(max1, obj)>>
                  ELSE event1
    IN  [st |-> [st EXCEPT !.max_farmed_plots = obj.total_plots_count], event |-> event2]

----------------------------------------------------------------------------
(* QuickPlotSearchTime *)

QuickPlotSearchTime_warning_threshold == 25

\* Variant: the comparison with the threshold not strict.
QuickPlotSearchTime_check_geq(st, obj) ==
    IF obj.search_time_seconds >= 25 * 100
    THEN [st |-> st,
          event |-> <<Event("USER", "NORMAL", "HARVESTER",
                            Text("Seeking plots took too long: {obj.search_time_seconds} seconds!",
                                 <<obj.search_time_seconds>>))>>]
    ELSE [st |-> st, event |-> None]

QuickPlotSearchTime_check(st, obj) ==
    IF obj.search_time_seconds > QuickPlotSearchTime_warning_threshold * 100
    THEN [st |-> st,
          event |-> <<Event("USER", "NORMAL", "HARVESTER",
                            Text("Seeking plots took too long: {obj.search_time_seconds} seconds!",
                                 <<obj.search_time_seconds>>))>>]
    ELSE [st |-> st, event |-> None]

----------------------------------------------------------------------------
(* FoundProofs *)

\* Variant: a single proof not reported.
FoundProofs_check_many(st, obj) ==
    IF obj.found_proofs_count > 1
    THEN [st |-> st,
          event |-> <<Event("USER", "LOW", "HARVESTER",
                            Text("Found {obj.found_proofs_count} proof(s)!",
                                 <<obj.found_proofs_count>>))>>]
    ELSE [st |-> st, event |-> None]

\* Variant: the checker keeps the count it saw in the plot checker's field.
FoundProofs_check_shared(st, obj) ==
    IF obj.found_proofs_count > 0
    THEN [st |-> [st EXCEPT !.max_farmed_plots = obj.found_proofs_count],
          event |-> <<Event("USER", "LOW", "HARVESTER",
                            Text("Found {obj.found_proofs_count} proof(s)!",
                                 <<obj.found_proofs_count>>))>>]
    ELSE [st |-> st, event |-> None]

FoundProofs_check(st, obj) ==
    IF obj.found_proofs_count > 0
    THEN [st |-> st,
          event |-> <<Event("USER", "LOW", "HARVESTER",
                            Text("Found {obj.found_proofs_count} proof(s)!",
                                 <<obj.found_proofs_count>>))>>]
    ELSE [st |-> st, event |-> None]

----------------------------------------------------------------------------
(* checker.check(msg), dispatched on the checker's class *)

check(checker, st, obj) ==
    CASE checker = "TimeSinceLastFarmEvent" -> TimeSinceLastFarmEvent_check(st, obj)
      [] checker = "NonDecreasingPlots"     -> NonDecreasingPlots_check(st, obj)
      [] checker = "QuickPlotSearchTime"    -> QuickPlotSearchTime_check(st, obj)
      [] checker = "FoundProofs"            -> FoundProofs_check(st, obj)

\* The field of the message a checker reads, and the state it holds.
Arg(checker, obj) ==
    CASE checker = "TimeSinceLastFarmEvent" -> obj.timestamp
      [] checker = "NonDecreasingPlots"     -> obj.total_plots_count
      [] checker = "QuickPlotSearchTime"    -> obj.search_time_seconds
      [] checker = "FoundProofs"            -> obj.found_proofs_count

Stored(checker, st) ==
    CASE checker = "TimeSinceLastFarmEvent" -> st.last_timestamp
      [] checker = "NonDecreasingPlots"     -> st.max_farmed_plots
      [] OTHER                              -> None

Call(checker, idx, st, obj) ==
    [checker |-> checker, idx |-> idx, arg |-> Arg(checker, obj),
     pre |-> Stored(checker, st), ret |-> check(checker, st, obj).event]

----------------------------------------------------------------------------
(* HarvesterActivityHandler.handle *)

\* Variant: the keep-alive event created whatever the parser returned.
KeepAlive_always(msgs) ==
    <<Event("KEEPALIVE", "NORMAL", "HARVESTER", Text("", <<>>))>>

KeepAlive(msgs) ==
    IF Len(msgs) > 0
    THEN <<Event("KEEPALIVE", "NORMAL", "HARVESTER", Text("", <<>>))>>
    ELSE <<>>

\* Variant: the returned event appended twice.
CheckStep_twice(acc, idx, obj, c) ==
    LET r == check(cond_checkers[c], acc.st, obj)
    IN  [st     |-> r.st,
         events |-> acc.events \o r.event \o r.event,
         calls  |-> Append(acc.calls, Call(cond_checkers[c], idx, acc.st, obj))]

\* One evaluation of the inner loop body: checker number c on message idx.
CheckStep(acc, idx, obj, c) ==
    LET r == check(cond_checkers[c], acc.st, obj)
    IN  [st     |-> r.st,
         events |-> acc.events \o r.event,
         calls  |-> Append(acc.calls, Call(cond_checkers[c], idx, acc.st, obj))]

\* Variant: the checkers after the first one that returned an event are skipped.
RECURSIVE ForCheckers_short(_, _, _, _)
ForCheckers_short(acc, idx, obj, c) ==
    IF c > Len(cond_checkers)
    THEN acc
    ELSE LET next == CheckStep(acc, idx, obj, c)
         IN  IF Len(next.events) > Len(acc.events)
             THEN next
             ELSE ForCheckers_short(next, idx, obj, c + 1)

RECURSIVE ForCheckers(_, _, _, _)
ForCheckers(acc, idx, obj, c) ==
    IF c > Len(cond_checkers)
    THEN acc
    ELSE ForCheckers(CheckStep(acc, idx, obj, c), idx, obj, c + 1)

RECURSIVE ForMessages(_, _, _)
ForMessages(acc, msgs, idx) ==
    IF idx > Len(msgs)
    THEN acc
    ELSE ForMessages(ForCheckers(acc, idx, msgs[idx], 1), msgs, idx + 1)

\* Variant: the checkers constructed again when nothing was parsed.
handle_reset(st, msgs) ==
    IF Len(msgs) = 0
    THEN [st |-> [last_timestamp |-> None, max_farmed_plots |-> 0],
          events |-> <<>>, calls |-> <<>>]
    ELSE ForMessages([st |-> st, events |-> KeepAlive(msgs), calls |-> <<>>], msgs, 1)

\* Variant: TimeSinceLastFarmEvent constructed again by every call.
handle_newtime(st, msgs) ==
    ForMessages([st |-> [st EXCEPT !.last_timestamp = <<>>],
                 events |-> KeepAlive(msgs), calls |-> <<>>], msgs, 1)

handle(st, msgs) ==
    ForMessages([st |-> st, events |-> KeepAlive(msgs), calls |-> <<>>], msgs, 1)

----------------------------------------------------------------------------
(* State *)

State == [last_timestamp |-> last_timestamp, max_farmed_plots |-> max_farmed_plots]

NewState == [last_timestamp |-> None, max_farmed_plots |-> 0]

Snapshot ==
    [last_timestamp |-> last_timestamp, max_farmed_plots |-> max_farmed_plots,
     last_obj |-> last_obj]

NewSnapshot == [last_timestamp |-> None, max_farmed_plots |-> 0, last_obj |-> None]

NotRecorded == [on |-> FALSE, fed |-> <<>>, emitted |-> <<>>, batches |-> <<>>]

NewLifetime == [on |-> TRUE, fed |-> <<>>, emitted |-> <<>>, batches |-> <<>>]

NonKeepAlive(es) == SelectSeq(es, LAMBDA e : e.type # "KEEPALIVE")

InitCommon ==
    /\ last_timestamp = None
    /\ max_farmed_plots = 0
    /\ activity_messages = <<>>
    /\ handled = FALSE
    /\ events = <<>>
    /\ calls = <<>>
    /\ before = NewSnapshot
    /\ last_obj = None

\* HarvesterActivityHandler()
Init ==
    /\ subject = Handler
    /\ InitCommon
    /\ lifetime = NotRecorded
    /\ threads = <<>>

\* The parser finds one more activity message in the logs of this call.
ParserYields(m) ==
    /\ subject = Handler
    /\ ~handled
    /\ Len(activity_messages) < MaxBatch
    /\ lifetime.on => Len(lifetime.fed) + Len(activity_messages) < MaxFed
    /\ activity_messages' = Append(activity_messages, m)
    /\ UNCHANGED <<subject, last_timestamp, max_farmed_plots, handled, events,
                   calls, before, last_obj, lifetime, threads>>

\* handle(logs), from the parse to the return.
Handle ==
    /\ subject = Handler
    /\ ~handled
    /\ LET r == handle(State, activity_messages)
       IN  /\ last_timestamp' = r.st.last_timestamp
           /\ max_farmed_plots' = r.st.max_farmed_plots
           /\ events' = r.events
           /\ calls' = r.calls
    /\ before' = Snapshot
    /\ last_obj' = IF Len(activity_messages) > 0
                   THEN <<activity_messages[Len(activity_messages)]>>
                   ELSE last_obj
    /\ handled' = TRUE
    /\ lifetime' =
           IF lifetime.on
           THEN [lifetime EXCEPT
                    !.fed = @ \o activity_messages,
                    !.emitted = @ \o NonKeepAlive(handle(State, activity_messages).events),
                    !.batches = Append(@, Len(activity_messages))]
           ELSE lifetime
    /\ UNCHANGED <<subject, activity_messages, threads>>

\* The driver takes the returned events and polls the log again.
NextLogs ==
    /\ subject = Handler
    /\ handled
    /\ activity_messages' = <<>>
    /\ events' = <<>>
    /\ calls' = <<>>
    /\ handled' = FALSE
    /\ before' = Snapshot
    /\ lifetime.on => Len(lifetime.batches) < MaxBatches
    /\ UNCHANGED <<subject, last_timestamp, max_farmed_plots, last_obj, lifetime, threads>>

\* The driver replaces the handler by a new HarvesterActivityHandler().
NewHandler ==
    /\ subject = Handler
    /\ handled
    /\ last_timestamp' = None
    /\ max_farmed_plots' = 0
    /\ activity_messages' = <<>>
    /\ events' = <<>>
    /\ calls' = <<>>
    /\ handled' = FALSE
    /\ before' = NewSnapshot
    /\ last_obj' = None
    /\ lifetime' = IF lifetime.on THEN NewLifetime ELSE lifetime
    /\ UNCHANGED <<subject, threads>>

Next ==
    \/ \E m \in Messages : ParserYields(m)
    \/ Handle
    \/ NextLogs
    \/ NewHandler

Spec == Init /\ [][Next]_vars

----------------------------------------------------------------------------
(* A single checker, constructed and called directly *)

InitChk ==
    /\ subject \in {cond_checkers[c] : c \in DOMAIN cond_checkers}
    /\ InitCommon
    /\ lifetime = NotRecorded
    /\ threads = <<>>

CheckCall(checker, obj) ==
    /\ subject = checker
    /\ Len(calls) < MaxCalls
    /\ LET r == check(checker, State, obj)
       IN  /\ last_timestamp' = r.st.last_timestamp
           /\ max_farmed_plots' = r.st.max_farmed_plots
    /\ calls' = Append(calls, Call(checker, Len(calls) + 1, State, obj))
    /\ UNCHANGED <<subject, activity_messages, handled, events, before, last_obj,
                   lifetime, threads>>

TimeCheck(obj) == CheckCall("TimeSinceLastFarmEvent", obj)

PlotsCheck(obj) == CheckCall("NonDecreasingPlots", obj)

SearchCheck(obj) == CheckCall("QuickPlotSearchTime", obj)

ProofsCheck(obj) == CheckCall("FoundProofs", obj)

\* The driver constructs a new checker in place of the one under test.
NewChecker ==
    /\ subject # Handler
    /\ calls # <<>>
    /\ subject' \in {cond_checkers[c] : c \in DOMAIN cond_checkers}
    /\ last_timestamp' = None
    /\ max_farmed_plots' = 0
    /\ calls' = <<>>
    /\ UNCHANGED <<activity_messages, handled, events, before, last_obj,
                   lifetime, threads>>

NextChk ==
    \/ \E obj \in Objs : TimeCheck(obj)
    \/ \E obj \in Objs : PlotsCheck(obj)
    \/ \E obj \in Objs : SearchCheck(obj)
    \/ \E obj \in Objs : ProofsCheck(obj)
    \/ NewChecker

SpecChk == InitChk /\ [][NextChk]_vars

----------------------------------------------------------------------------
(* One handler whose lifetime is recorded: every message it was given and   *)
(* every event, keepalive apart, it returned, over successive handle calls  *)

InitSplit ==
    /\ subject = Handler
    /\ InitCommon
    /\ lifetime = NewLifetime
    /\ threads = <<>>

NextSplit ==
    \/ \E m \in SplitMessages : ParserYields(m)
    \/ Handle
    \/ NextLogs
    \/ NewHandler

SpecSplit == InitSplit /\ [][NextSplit]_vars

----------------------------------------------------------------------------
(* Two threads calling handle on the same new handler.  A thread can be     *)
(* switched out anywhere inside a check call, so each step is one access to *)
(* a checker field: a read or a test of it (with the thread-local work that *)
(* follows, logging included), or an assignment to it.  What a thread has   *)
(* read stays in its record while the other thread runs.                    *)

ThreadBatches == UNION {[1..n -> ThreadMessages] : n \in 0..MaxThreadBatch}

\* A call of handle whose parse returned msgs: pc counts the check calls that
\* returned, step is the line the current check call is at, local the event
\* the current check call has built so far.
NewCall(msgs) ==
    [msgs |-> msgs, status |-> "called", pc |-> 0, step |-> "call",
     local |-> None, events |-> <<>>, raced |-> FALSE]

InitThreads ==
    /\ subject = Handler
    /\ InitCommon
    /\ lifetime = NotRecorded
    /\ \E a, b \in ThreadBatches : threads = <<NewCall(a), NewCall(b)>>

\* The thread has entered its first check call and not left its last one.
MidLoop(th) ==
    /\ th.status = "running"
    /\ (0 < th.pc \/ th.step # "call")
    /\ th.pc < Len(cond_checkers) * Len(th.msgs)

\* Thread t parses its logs and creates the keep-alive event.
Begin(t) ==
    /\ threads # <<>>
    /\ threads[t].status = "called"
    /\ threads' = [threads EXCEPT ![t].status = "running",
                                  ![t].events = KeepAlive(threads[t].msgs)]
    /\ UNCHANGED <<subject, last_timestamp, max_farmed_plots, activity_messages,
                   handled, events, calls, before, last_obj, lifetime>>

\* The message of the check call thread th is in.
Obj(th) == th.msgs[(th.pc \div Len(cond_checkers)) + 1]

\* Thread t is in a check call of the given checker, at the given line.
At(t, checker, step) ==
    /\ threads # <<>>
    /\ threads[t].status = "running"
    /\ threads[t].pc < Len(cond_checkers) * Len(threads[t].msgs)
    /\ cond_checkers[(threads[t].pc % Len(cond_checkers)) + 1] = checker
    /\ threads[t].step = step

\* Thread t moves inside its check call: to the given line, holding ev.
Goto(t, step, ev) ==
    threads' = [threads EXCEPT
                    ![t].step = step,
                    ![t].local = ev,
                    ![t].raced = @ \/ MidLoop(threads[3 - t])]

\* The check call of thread t returns ev, which handle appends when it is an
\* event.
Leave(t, ev) ==
    threads' = [threads EXCEPT
                    ![t].pc = @ + 1,
                    ![t].step = "call",
                    ![t].local = None,
                    ![t].events = @ \o ev,
                    ![t].raced = @ \/ MidLoop(threads[3 - t])]

\* TimeSinceLastFarmEvent.check: the test for a first message.
TimeTestFirst(t) ==
    /\ At(t, "TimeSinceLastFarmEvent", "call")
    /\ Goto(t, IF last_timestamp = None THEN "baseline" ELSE "measure", None)
    /\ UNCHANGED <<subject, last_timestamp, max_farmed_plots, activity_messages,
                   handled, events, calls, before, last_obj, lifetime>>

\* TimeSinceLastFarmEvent.check: the first message becomes the baseline.
TimeBaseline(t) ==
    /\ At(t, "TimeSinceLastFarmEvent", "baseline")
    /\ last_timestamp' = Obj(threads[t]).timestamp
    /\ Leave(t, None)
    /\ UNCHANGED <<subject, max_farmed_plots, activity_messages, handled, events,
                   calls, before, last_obj, lifetime>>

\* TimeSinceLastFarmEvent.check: the seconds since the stored timestamp, as
\* it reads now, and the event they call for.
TimeMeasure(t) ==
    /\ At(t, "TimeSinceLastFarmEvent", "measure")
    /\ Goto(t, "record", TimeSinceLastFarmEvent_check(State, Obj(threads[t])).event)
    /\ UNCHANGED <<subject, last_timestamp, max_farmed_plots, activity_messages,
                   handled, events, calls, before, last_obj, lifetime>>

\* TimeSinceLastFarmEvent.check: the timestamp is stored, the event returned.
TimeRecord(t) ==
    /\ At(t, "TimeSinceLastFarmEvent", "record")
    /\ last_timestamp' = Obj(threads[t]).timestamp
    /\ Leave(t, threads[t].local)
    /\ UNCHANGED <<subject, max_farmed_plots, activity_messages, handled, events,
                   calls, before, last_obj, lifetime>>

\* NonDecreasingPlots.check: the test for an increase.
PlotsTestIncrease(t) ==
    /\ At(t, "NonDecreasingPlots", "call")
    /\ Goto(t, IF Obj(threads[t]).total_plots_count > max_farmed_plots
               THEN "increase" ELSE "test", None)
    /\ UNCHANGED <<subject, last_timestamp, max_farmed_plots, activity_messages,
                   handled, events, calls, before, last_obj, lifetime>>

\* NonDecreasingPlots.check: the count becomes the maximum, the increase
\* event is built.
PlotsIncrease(t) ==
    /\ At(t, "NonDecreasingPlots", "increase")
    /\ max_farmed_plots' = Obj(threads[t]).total_plots_count
    /\ Goto(t, "test", <<IncreasedEvent(Obj(threads[t]))>>)
    /\ UNCHANGED <<subject, last_timestamp, activity_messages, handled, events,
                   calls, before, last_obj, lifetime>>

\* NonDecreasingPlots.check: the test for a decrease.
PlotsTestDecrease(t) ==
    /\ At(t, "NonDecreasingPlots", "test")
    /\ Goto(t, IF Obj(threads[t]).total_plots_count < max_farmed_plots
               THEN "decrease" ELSE "record", threads[t].local)
    /\ UNCHANGED <<subject, last_timestamp, max_farmed_plots, activity_messages,
                   handled, events, calls, before, last_obj, lifetime>>

\* NonDecreasingPlots.check: the decrease event is built from the maximum as
\* it reads now.
PlotsDecrease(t) ==
    /\ At(t, "NonDecreasingPlots", "decrease")
    /\ Goto(t, "record", <<DecreasedEvent(max_farmed_plots, Obj(threads[t]))>>)
    /\ UNCHANGED <<subject, last_timestamp, max_farmed_plots, activity_messages,
                   handled, events, calls, before, last_obj, lifetime>>

\* NonDecreasingPlots.check: the count is stored, the event returned.
PlotsRecord(t) ==
    /\ At(t, "NonDecreasingPlots", "record")
    /\ max_farmed_plots' = Obj(threads[t]).total_plots_count
    /\ Leave(t, threads[t].local)
    /\ UNCHANGED <<subject, last_timestamp, activity_messages, handled, events,
                   calls, before, last_obj, lifetime>>

\* QuickPlotSearchTime.check and FoundProofs.check read the message and a
\* threshold nothing assigns to: one step each.
SearchStep(t) ==
    /\ At(t, "QuickPlotSearchTime", "call")
    /\ Leave(t, QuickPlotSearchTime_check(State, Obj(threads[t])).event)
    /\ UNCHANGED <<subject, last_timestamp, max_farmed_plots, activity_messages,
                   handled, events, calls, before, last_obj, lifetime>>

ProofsStep(t) ==
    /\ At(t, "FoundProofs", "call")
    /\ Leave(t, FoundProofs_check(State, Obj(threads[t])).event)
    /\ UNCHANGED <<subject, last_timestamp, max_farmed_plots, activity_messages,
                   handled, events, calls, before, last_obj, lifetime>>

\* Thread t returns its events.
Return(t) ==
    /\ threads # <<>>
    /\ threads[t].status = "running"
    /\ threads[t].pc = Len(cond_checkers) * Len(threads[t].msgs)
    /\ threads' = [threads EXCEPT ![t].status = "returned"]
    /\ UNCHANGED <<subject, last_timestamp, max_farmed_plots, activity_messages,
                   handled, events, calls, before, last_obj, lifetime>>

NextThreads ==
    \/ \E t \in 1..2 : Begin(t)
    \/ \E t \in 1..2 : TimeTestFirst(t)
    \/ \E t \in 1..2 : TimeBaseline(t)
    \/ \E t \in 1..2 : TimeMeasure(t)
    \/ \E t \in 1..2 : TimeRecord(t)
    \/ \E t \in 1..2 : PlotsTestIncrease(t)
    \/ \E t \in 1..2 : PlotsIncrease(t)
    \/ \E t \in 1..2 : PlotsTestDecrease(t)
    \/ \E t \in 1..2 : PlotsDecrease(t)
    \/ \E t \in 1..2 : PlotsRecord(t)
    \/ \E t \in 1..2 : SearchStep(t)
    \/ \E t \in 1..2 : ProofsStep(t)
    \/ \E t \in 1..2 : Return(t)

SpecThreads == InitThreads /\ [][NextThreads]_vars

----------------------------------------------------------------------------
(* Vocabulary of the properties *)

IsKeepAlive(e) == e.type = "KEEPALIVE"

KeepAlives(es) == {i \in DOMAIN es : IsKeepAlive(es[i])}

\* a is not earlier than b
NotEarlier(a, b) == a[1] > b[1] \/ (a[1] = b[1] /\ a[2] >= b[2])

\* The whole seconds from b to a, a not earlier than b, fraction truncated.
WholeSeconds(a, b) == IF a[2] >= b[2] THEN a[1] - b[1] ELSE a[1] - b[1] - 1

\* ret is one user-facing normal-priority event reporting n seconds without activity
IsGapEvent(ret, n) ==
    /\ Len(ret) = 1
    /\ ret[1].type = "USER"
    /\ ret[1].priority = "NORMAL"
    /\ ret[1].message.args = <<n>>

IsSomeGapEvent(ret) ==
    /\ Len(ret) = 1
    /\ ret[1].type = "USER"
    /\ ret[1].priority = "NORMAL"

\* ret is one user-facing low-priority event "increased to n"
IsIncrease(ret, n) ==
    /\ Len(ret) = 1
    /\ ret[1].type = "USER"
    /\ ret[1].priority = "LOW"
    /\ ret[1].message.fmt = "The total plot count increased to {obj.total_plots_count}."
    /\ ret[1].message.args = <<n>>

\* ret is one user-facing high-priority event "decreased from m to n"
IsDecrease(ret, m, n) ==
    /\ Len(ret) = 1
    /\ ret[1].type = "USER"
    /\ ret[1].priority = "HIGH"
    /\ ret[1].message.args = <<m, n>>

\* e is the user-facing low-priority event reporting n found proofs
IsFoundProofs(e, n) ==
    /\ e.type = "USER"
    /\ e.priority = "LOW"
    /\ e.message.fmt = "Found {obj.found_proofs_count} proof(s)!"
    /\ e.message.args = <<n>>

TimeCalls == {i \in DOMAIN calls : calls[i].checker = "TimeSinceLastFarmEvent"}

PlotsCalls == {i \in DOMAIN calls : calls[i].checker = "NonDecreasingPlots"}

\* The events the calls returned, in call order.
RECURSIVE Returned(_)
Returned(cs) == IF cs = <<>> THEN <<>> ELSE Head(cs).ret \o Returned(Tail(cs))

\* The call the last handle made of the given checker on message number idx.
CallOn(idx, checker) ==
    CHOOSE c \in {calls[i] : i \in DOMAIN calls} : c.idx = idx /\ c.checker = checker

----------------------------------------------------------------------------
(* C1 *)

\* C1: handle returns a keepalive event iff the parser returned at least one
\* message; then there is exactly one, it is the first element, of normal
\* priority and with an empty message; for an empty parse the result is empty.
C1_KeepAliveIffParsed ==
    handled =>
        /\ (KeepAlives(events) # {}) <=> (Len(activity_messages) > 0)
        /\ Len(activity_messages) > 0 =>
               /\ KeepAlives(events) = {1}
               /\ events[1].priority = "NORMAL"
               /\ events[1].message = Text("", <<>>)
        /\ Len(activity_messages) = 0 => events = <<>>

C1_Witness ==
    /\ handled
    /\ Len(activity_messages) = MaxBatch
    /\ Len(events) > 2
    /\ IsKeepAlive(events[1])

----------------------------------------------------------------------------
(* C2 *)

\* C2: handle evaluates each of the four checkers exactly once on every parsed
\* message, in the order TimeSinceLastFarmEvent, NonDecreasingPlots,
\* QuickPlotSearchTime, FoundProofs, whatever the earlier checkers returned;
\* the events after the keepalive are those the calls returned, by message
\* position first and checker order second.
C2_AllCheckersInOrder ==
    handled =>
        /\ Len(calls) = 4 * Len(activity_messages)
        /\ \A i \in DOMAIN calls :
               /\ calls[i].idx = ((i - 1) \div 4) + 1
               /\ calls[i].checker =
                      <<"TimeSinceLastFarmEvent", "NonDecreasingPlots",
                        "QuickPlotSearchTime", "FoundProofs">>[((i - 1) % 4) + 1]
               /\ calls[i].arg = Arg(calls[i].checker, activity_messages[calls[i].idx])
        /\ events = KeepAlive(activity_messages) \o Returned(calls)

C2_Witness ==
    /\ handled
    /\ Len(activity_messages) = 2
    /\ Len(calls) = 8
    /\ \A i \in 5..8 : calls[i].ret # None
    /\ Len(events) >= 6

----------------------------------------------------------------------------
(* C3 *)

\* C3: on every call of TimeSinceLastFarmEvent.check after the first, when the
\* message timestamp is more than 60 whole seconds after the stored
\* last_timestamp, however large the difference, exactly one user-facing
\* normal-priority event is returned and it reports that number of seconds.
C3_GapEventReportsDelta ==
    \A i \in TimeCalls :
        (/\ calls[i].pre # None
         /\ NotEarlier(calls[i].arg, calls[i].pre)
         /\ WholeSeconds(calls[i].arg, calls[i].pre) > 60)
        => IsGapEvent(calls[i].ret, WholeSeconds(calls[i].arg, calls[i].pre))

----------------------------------------------------------------------------
(* C4 *)

\* C4: a call of TimeSinceLastFarmEvent.check with a message timestamp equal to
\* or earlier than the stored last_timestamp returns no event.
C4_NoEventOnNonPositiveDelta ==
    \A i \in TimeCalls :
        (calls[i].pre # None /\ NotEarlier(calls[i].pre, calls[i].arg))
        => calls[i].ret = None

----------------------------------------------------------------------------
(* C5 *)

C5_Applies ==
    /\ handled
    /\ before = NewSnapshot
    /\ activity_messages =
           <<HarvesterActivityMessage(<<0, 0>>, 100, 500, 0),
             HarvesterActivityMessage(<<40, 0>>, 100, 500, 1)>>

\* C5 as stated: a fresh handler given {t=0, plots=100, search=5, proofs=0} and
\* {t=40, plots=100, search=5, proofs=1} returns exactly two events, the
\* keepalive and the low-priority found-proofs event reporting 1.
C5_TwoEvents ==
    C5_Applies =>
        /\ Len(events) = 2
        /\ IsKeepAlive(events[1])
        /\ IsFoundProofs(events[2], 1)

\* C5 amended: the handler returns exactly three events: the keepalive, the
\* low-priority plot-count event "increased to 100" raised by the first
\* message against the initial count 0, and the low-priority found-proofs
\* event reporting 1; no decrease event and no time-gap event.
C5_ThreeEvents ==
    C5_Applies =>
        /\ Len(events) = 3
        /\ IsKeepAlive(events[1])
        /\ IsIncrease(<<events[2]>>, 100)
        /\ IsFoundProofs(events[3], 1)

C5_Witness == C5_Applies /\ Len(calls) = 8

----------------------------------------------------------------------------
(* C6 *)

C6_Applies ==
    /\ subject = "NonDecreasingPlots"
    /\ Len(calls) >= 4
    /\ <<calls[1].arg, calls[2].arg, calls[3].arg, calls[4].arg>> = <<10, 15, 12, 15>>

\* C6 as stated: a fresh NonDecreasingPlots fed 10, 15, 12, 15 returns exactly
\* three events over the four calls: increase to 15, decrease from 15 to 12,
\* increase to 15.
C6_ThreeEvents ==
    C6_Applies =>
        LET es == Returned(SubSeq(calls, 1, 4))
        IN  /\ Len(es) = 3
            /\ IsIncrease(<<es[1]>>, 15)
            /\ IsDecrease(<<es[2]>>, 15, 12)
            /\ IsIncrease(<<es[3]>>, 15)

\* C6 amended: a fresh NonDecreasingPlots fed 10, 15, 12, 15 returns one event
\* on each of the four calls: increase to 10 (against the initial 0), increase
\* to 15, decrease from 15 to 12, increase to 15.
C6_FourEvents ==
    C6_Applies =>
        /\ IsIncrease(calls[1].ret, 10)
        /\ IsIncrease(calls[2].ret, 15)
        /\ IsDecrease(calls[3].ret, 15, 12)
        /\ IsIncrease(calls[4].ret, 15)

C6_Witness == C6_Applies /\ max_farmed_plots = 15 /\ Len(calls) = 4

----------------------------------------------------------------------------
(* C7 *)

\* Call i saw the count drop from M to a lower N and call i+1 sees M again.
C7_Recovery(i) ==
    /\ i \in PlotsCalls
    /\ i + 1 \in PlotsCalls
    /\ calls[i].arg < calls[i].pre
    /\ calls[i + 1].arg = calls[i].pre

\* C7 as stated: after a drop from M to N < M, a following message whose count
\* is M again does not raise the increase event.
C7_RecoveryIsSilent ==
    \A i \in DOMAIN calls :
        C7_Recovery(i) => ~IsIncrease(calls[i + 1].ret, calls[i + 1].arg)

\* C7 amended: after a drop from M to N < M, a following message whose count
\* is M again raises the low-priority increase event "increased to M", the
\* stored value being N by then.
C7_RecoveryRaisesIncrease ==
    \A i \in DOMAIN calls :
        C7_Recovery(i) =>
            /\ calls[i + 1].pre = calls[i].arg
            /\ IsIncrease(calls[i + 1].ret, calls[i].pre)

C7_Witness ==
    \E i \in DOMAIN calls :
        /\ C7_Recovery(i)
        /\ IsDecrease(calls[i].ret, calls[i].pre, calls[i].arg)
        /\ calls[i + 1].ret # None

----------------------------------------------------------------------------
(* C8 *)

\* C8: NonDecreasingPlots.check with stored value M and message count N returns
\* one low-priority event "increased to N" when N > M, one high-priority event
\* "decreased from M to N" when N < M, and nothing when N = M; a count that
\* stays at the lower value after a drop raises nothing on the next call.
C8_PlotsCheckByComparison ==
    \A i \in PlotsCalls :
        LET M == calls[i].pre
            N == calls[i].arg
        IN  /\ N > M => IsIncrease(calls[i].ret, N)
            /\ N < M => IsDecrease(calls[i].ret, M, N)
            /\ N = M => calls[i].ret = None
            /\ (N < M /\ i + 1 \in PlotsCalls /\ calls[i + 1].arg = N)
                   => calls[i + 1].ret = None

C8_Witness ==
    \E i \in PlotsCalls :
        /\ i + 1 \in PlotsCalls
        /\ calls[i].pre > 0
        /\ calls[i].arg < calls[i].pre
        /\ IsDecrease(calls[i].ret, calls[i].pre, calls[i].arg)
        /\ calls[i + 1].arg = calls[i].arg
        /\ calls[i + 1].ret = None

----------------------------------------------------------------------------
(* C9 *)

\* C9: checker state persists across handle calls: TimeSinceLastFarmEvent is
\* silent as a baseline only on the first message of the handler's lifetime;
\* the first message of a later batch is compared with the last message of the
\* previous non-empty batch, a gap of more than 60 s raising the gap event;
\* NonDecreasingPlots compares the first message of a batch with the last
\* count of the previous batch.
C9_StatePersistsAcrossBatches ==
    (handled /\ Len(activity_messages) > 0) =>
        LET first == activity_messages[1]
            t == CallOn(1, "TimeSinceLastFarmEvent")
            p == CallOn(1, "NonDecreasingPlots")
        IN  /\ before.last_obj = None => (t.pre = None /\ t.ret = None)
            /\ before.last_obj # None =>
                   LET prev == before.last_obj[1]
                   IN  /\ t.pre = prev.timestamp
                       /\ (/\ NotEarlier(first.timestamp, prev.timestamp)
                           /\ WholeSeconds(first.timestamp, prev.timestamp) > 60)
                              => IsSomeGapEvent(t.ret)
                       /\ p.pre = prev.total_plots_count
                       /\ first.total_plots_count > prev.total_plots_count
                              => IsIncrease(p.ret, first.total_plots_count)
                       /\ first.total_plots_count < prev.total_plots_count
                              => IsDecrease(p.ret, prev.total_plots_count,
                                            first.total_plots_count)
                       /\ first.total_plots_count = prev.total_plots_count
                              => p.ret = None

----------------------------------------------------------------------------
(* C10 *)

\* C10: TimeSinceLastFarmEvent.check returns no event when the message
\* timestamp is at least 0 and less than 61 seconds after last_timestamp,
\* fraction included (30 s, 60 s, 60.9 s), and returns exactly one
\* normal-priority event when it is exactly 61 s after it.
C10_StrictTruncatedThreshold ==
    \A i \in TimeCalls :
        (calls[i].pre # None /\ NotEarlier(calls[i].arg, calls[i].pre)) =>
            /\ WholeSeconds(calls[i].arg, calls[i].pre) < 61 => calls[i].ret = None
            /\ (/\ calls[i].arg[1] - calls[i].pre[1] = 61
                /\ calls[i].arg[2] = calls[i].pre[2])
                   => IsGapEvent(calls[i].ret, 61)

C10_Witness ==
    /\ \E i \in TimeCalls :
           /\ calls[i].pre # None
           /\ calls[i].arg[1] - calls[i].pre[1] = 60
           /\ calls[i].arg[2] - calls[i].pre[2] = 900000
           /\ calls[i].ret = None
    /\ \E i \in TimeCalls :
           /\ calls[i].pre # None
           /\ calls[i].arg[1] - calls[i].pre[1] = 61
           /\ calls[i].arg[2] = calls[i].pre[2]
           /\ IsGapEvent(calls[i].ret, 61)

----------------------------------------------------------------------------
(* C11 *)

\* C11: every check call returns at most one event, so a handle call over n
\* parsed messages returns at most 1 + 4n events, at most 4 of them, keepalive
\* apart, for any single message.
C11_AtMostOneEventPerCheck ==
    handled =>
        /\ \A i \in DOMAIN calls : Len(calls[i].ret) <= 1
        /\ Len(events) <= 1 + 4 * Len(activity_messages)
        /\ Len(events) - Cardinality(KeepAlives(events)) =
               Len(Returned(calls))
        /\ \A idx \in DOMAIN activity_messages :
               Len(Returned(SelectSeq(calls, LAMBDA c : c.idx = idx))) <= 4

C11_Witness ==
    /\ handled
    /\ Len(activity_messages) = MaxBatch
    /\ Len(events) = 1 + 4 * Len(activity_messages)

----------------------------------------------------------------------------
(* C12 *)

SearchCalls == {i \in DOMAIN calls : calls[i].checker = "QuickPlotSearchTime"}

\* ret is one user-facing normal-priority event reporting the search time s
IsSlowSearch(ret, s) ==
    /\ Len(ret) = 1
    /\ ret[1].type = "USER"
    /\ ret[1].priority = "NORMAL"
    /\ ret[1].message.args = <<s>>

\* C12: QuickPlotSearchTime.check returns exactly one user-facing
\* normal-priority event iff search_time_seconds is strictly greater than 25
\* (25 none, 25.01 one), and two calls with the same search time return the
\* same, whatever was checked before them.
C12_SearchTimeThreshold ==
    /\ \A i \in SearchCalls :
           /\ calls[i].arg > 2500 => IsSlowSearch(calls[i].ret, calls[i].arg)
           /\ calls[i].arg <= 2500 => calls[i].ret = None
    /\ \A i, j \in SearchCalls :
           calls[i].arg = calls[j].arg => calls[i].ret = calls[j].ret
    /\ subject = "QuickPlotSearchTime" => State = NewState

C12_Witness ==
    \E i, j, k \in SearchCalls :
        /\ i < j /\ j < k
        /\ calls[i].arg = 2501 /\ calls[i].ret # None
        /\ calls[j].arg = 2500 /\ calls[j].ret = None
        /\ calls[k].arg = 2501 /\ calls[k].ret # None

----------------------------------------------------------------------------
(* C13 *)

ProofsCalls == {i \in DOMAIN calls : calls[i].checker = "FoundProofs"}

\* C13: FoundProofs.check returns exactly one user-facing low-priority event
\* reporting the count iff found_proofs_count is greater than 0, whatever was
\* checked before.
C13_FoundProofsThreshold ==
    /\ \A i \in ProofsCalls :
           /\ calls[i].arg > 0 =>
                  (Len(calls[i].ret) = 1 /\ IsFoundProofs(calls[i].ret[1], calls[i].arg))
           /\ calls[i].arg = 0 => calls[i].ret = None
    /\ \A i, j \in ProofsCalls :
           calls[i].arg = calls[j].arg => calls[i].ret = calls[j].ret

C13_Witness ==
    \E i, j, k \in ProofsCalls :
        /\ i < j /\ j < k
        /\ calls[i].arg = 2 /\ Len(calls[i].ret) = 1
        /\ calls[j].arg = 0 /\ calls[j].ret = None
        /\ calls[k].arg = 1 /\ Len(calls[k].ret) = 1

----------------------------------------------------------------------------
(* C15 *)

\* C15: after every TimeSinceLastFarmEvent.check call, whichever branch it
\* took, last_timestamp is the timestamp of the message just checked; so a
\* message 5 s after one that raised the event for a 61 s gap raises nothing.
C15_LastTimestampAlwaysUpdated ==
    /\ (subject = "TimeSinceLastFarmEvent" /\ calls # <<>>) =>
           last_timestamp = calls[Len(calls)].arg
    /\ \A i \in TimeCalls :
           i + 1 \in TimeCalls =>
               /\ calls[i + 1].pre = calls[i].arg
               /\ (/\ IsGapEvent(calls[i].ret, 61)
                   /\ calls[i + 1].arg[1] - calls[i].arg[1] = 5
                   /\ calls[i + 1].arg[2] = calls[i].arg[2])
                      => calls[i + 1].ret = None

C15_Witness ==
    \E i \in TimeCalls :
        /\ i + 1 \in TimeCalls
        /\ calls[i].pre # None
        /\ calls[i].arg[1] - calls[i].pre[1] = 61
        /\ IsGapEvent(calls[i].ret, 61)
        /\ calls[i + 1].arg[1] - calls[i].arg[1] = 5
        /\ calls[i + 1].ret = None

----------------------------------------------------------------------------
(* C16 *)

\* C16: after every NonDecreasingPlots.check call the stored value is the
\* total_plots_count of the message just checked, whether it rose, fell or
\* stayed; it is the most recent count, not the maximum, and can decrease.
C16_StoredIsMostRecentCount ==
    /\ (subject = "NonDecreasingPlots" /\ calls # <<>>) =>
           max_farmed_plots = calls[Len(calls)].arg
    /\ \A i \in PlotsCalls :
           i + 1 \in PlotsCalls => calls[i + 1].pre = calls[i].arg

C16_Witness ==
    /\ subject = "NonDecreasingPlots"
    /\ Len(calls) >= 3
    /\ calls[2].arg < calls[1].arg
    /\ calls[3].arg = calls[2].arg
    /\ calls[3].pre < calls[2].pre
    /\ max_farmed_plots < calls[1].arg

----------------------------------------------------------------------------
(* C17 *)

\* A check call was made on the checker under test in this step.
Checked == subject' = subject /\ Len(calls') = Len(calls) + 1

\* C17: a check call changes no state but its own checker's:
\* TimeSinceLastFarmEvent.check leaves the stored plot count as it is,
\* NonDecreasingPlots.check leaves last_timestamp as it is,
\* QuickPlotSearchTime.check and FoundProofs.check change neither, and no
\* call changes anything else the driver sees.
C17_CheckerStateIsPrivate ==
    [][Checked =>
          /\ subject = "TimeSinceLastFarmEvent" => max_farmed_plots' = max_farmed_plots
          /\ subject = "NonDecreasingPlots" => last_timestamp' = last_timestamp
          /\ subject \in {"QuickPlotSearchTime", "FoundProofs"} =>
                 (last_timestamp' = last_timestamp /\ max_farmed_plots' = max_farmed_plots)
          /\ UNCHANGED <<activity_messages, events, before, last_obj, lifetime>>]_vars

C17_Witness ==
    /\ subject = "FoundProofs"
    /\ Len(calls) >= 2
    /\ calls[1].ret # None
    /\ calls[2].ret # None
    /\ State = NewState

----------------------------------------------------------------------------
(* C14 *)

UserFacing(es) == SelectSeq(es, LAMBDA e : e.type = "USER")

BothReturned ==
    /\ threads # <<>>
    /\ threads[1].status = "returned"
    /\ threads[2].status = "returned"

\* The user-facing events the two calls returned.
Outcome == <<UserFacing(threads[1].events), UserFacing(threads[2].events)>>

\* What they return when the call of thread a runs wholly before that of b.
Serial(a, b) ==
    LET ra == handle(NewState, threads[a].msgs)
        rb == handle(ra.st, threads[b].msgs)
    IN  IF a = 1
        THEN <<UserFacing(ra.events), UserFacing(rb.events)>>
        ELSE <<UserFacing(rb.events), UserFacing(ra.events)>>

Unserializable == BothReturned /\ Outcome # Serial(1, 2) /\ Outcome # Serial(2, 1)

\* C14: two handle calls on one handler are not safe to run concurrently:
\* there are runs (the witness) in which the user-facing events the two calls
\* return are those of neither serial order of the calls, and every such run
\* is one in which the check calls of the two handle calls interleaved.
C14_UnserializableOnlyWhenInterleaved ==
    Unserializable => (threads[1].raced \/ threads[2].raced)

\* Such a run in which, besides, the time checks ran in timestamp order, so
\* that the only gap reported is the 61 s of 86461 s after 0 s.
C14_Witness ==
    /\ Unserializable
    /\ Len(Outcome[1]) > 0
    /\ Len(Outcome[2]) > 0
    /\ \A t \in 1..2 : \A i \in DOMAIN Outcome[t] :
           Outcome[t][i].priority = "NORMAL" => Outcome[t][i].message.args = <<61>>

----------------------------------------------------------------------------
(* C18 *)

\* The messages the handler was given before the current call.
FedBefore == SubSeq(lifetime.fed, 1, Len(lifetime.fed) - Len(activity_messages))

\* The calls so far were: ..., a non-empty batch, an empty batch, this
\* non-empty batch.
AfterEmptyBatch ==
    LET n == Len(lifetime.batches)
    IN  /\ handled
        /\ n >= 3
        /\ lifetime.batches[n - 2] > 0
        /\ lifetime.batches[n - 1] = 0
        /\ lifetime.batches[n] > 0

\* C18: a handle call for which the parser returns nothing makes no check call,
\* returns nothing and leaves last_timestamp and the stored plot count as they
\* were; the events of a batch handled after an empty batch are those it would
\* have without the empty batch.
C18_EmptyBatchChangesNothing ==
    /\ (handled /\ activity_messages = <<>>) =>
           /\ calls = <<>>
           /\ events = <<>>
           /\ last_timestamp = before.last_timestamp
           /\ max_farmed_plots = before.max_farmed_plots
    /\ AfterEmptyBatch =>
           events = handle(handle(NewState, FedBefore).st, activity_messages).events

C18_Witness ==
    /\ AfterEmptyBatch
    /\ Len(events) > 2
    /\ before.last_timestamp # None

----------------------------------------------------------------------------
(* C19 *)

\* C19: however a message sequence is split into the batches of successive
\* handle calls on one handler, the events returned, keepalives apart and in
\* order, are those of one handle call over the whole sequence on a new
\* handler, and the checkers end in the same state.
C19_BatchSplitInvariance ==
    LET whole == handle(NewState, lifetime.fed)
    IN  lifetime.on =>
            /\ lifetime.emitted = NonKeepAlive(whole.events)
            /\ State = whole.st

C19_Witness ==
    /\ handled
    /\ lifetime.batches = <<1, 2>>
    /\ Len(lifetime.emitted) >= 4
    /\ Len(events) >= 3

====
